---- MODULE Spec2Model ----
(***************************************************************************)
(* GTFS-Realtime coordinator of custom_components/gtfs_rt: the refresh     *)
(* cycle GtfsDataCoordinator._async_update_data (fetch, merge, project,    *)
(* sort, publish) and the query GtfsDataCoordinator.get_next_arrivals.     *)
(*                                                                         *)
(* Python values are modelled as follows.                                  *)
(*   dict      a sequence of [k, v] entries in insertion order (a Python   *)
(*             dict iterates in insertion order, and get_next_arrivals     *)
(*             iterates the route level)                                   *)
(*   X | None  None is <<>>, a present value x is <<x>>                    *)
(*   datetime  a naive local datetime is the integer wall-clock reading    *)
(*             of its fields; naive datetimes compare by their fields      *)
(***************************************************************************)
EXTENDS Integers, Sequences, FiniteSets, TLC

(***************************************************************************)
(* Bounds of the model.                                                    *)
(***************************************************************************)
\* Instants are 1..MaxTime; a protobuf time field of 0 is an unset field.
MaxTime == 3
\* The local time zone, when it observes daylight saving time, puts its
\* clocks back by FoldLen at the instant FallBack.
FallBack == 2
FoldLen == 2

None == <<>>
Some(x) == <<x>>

Routes == {"42", "7"}
Directions == {0, 1}
Stops == {"S1", "S2"}
TimeZones == {"UTC", "DST"}

(***************************************************************************)
(* Python dict: entries in insertion order.                                *)
(***************************************************************************)
Keys(d) == {d[n].k : n \in DOMAIN d}
Has(d, key) == \E n \in DOMAIN d : d[n].k = key
IndexOf(d, key) == CHOOSE n \in DOMAIN d : d[n].k = key
\* d[key]; the callers guard it with Has, as the code guards with `in`.
Get(d, key) == d[IndexOf(d, key)].v
\* d.get(key): the value, or None.
DictGet(d, key) == IF Has(d, key) THEN Some(Get(d, key)) ELSE None
\* d[key] = value: an existing key keeps its place, a new key goes last.
Put(d, key, value) ==
    IF Has(d, key)
    THEN [d EXCEPT ![IndexOf(d, key)] = [k |-> key, v |-> value]]
    ELSE Append(d, [k |-> key, v |-> value])

(***************************************************************************)
(* The GTFS-Realtime messages the endpoints serve.                         *)
(***************************************************************************)
StopTimeUpdate(stop, arr, dep) ==
    [stop_id |-> stop, arrival |-> arr, departure |-> dep]
TripUpdate(route, dir, trip, veh, stus) ==
    [route_id |-> route, direction_id |-> dir, trip_id |-> trip,
     vehicle_id |-> veh, stop_time_update |-> stus]
VehiclePosition(veh, trip, route, pos, occ) ==
    [vehicle_id |-> veh, trip_id |-> trip, route_id |-> route,
     position |-> pos, occupancy_status |-> occ]
Position(lat, lon) == [latitude |-> lat, longitude |-> lon]
\* A FeedEntity: each of its message fields is present or not.
TripUpdateEntity(tu) == [trip_update |-> Some(tu), vehicle |-> None]
VehicleEntity(vp) == [trip_update |-> None, vehicle |-> Some(vp)]
\* An entity of the alerts response has neither of the two fields the
\* coordinator reads; its alert field is read nowhere.
AlertEntity(alert) == [trip_update |-> None, vehicle |-> None]
\* Reading an absent message field gives the default message.
DefaultVehicle == VehiclePosition("", "", "", Position(0, 0), 0)
HasTripUpdate(entity) == entity.trip_update # None
VehicleOf(entity) ==
    IF entity.vehicle = None THEN DefaultVehicle ELSE entity.vehicle[1]

\* The trips in service, each with the route and the direction it runs on
\* and the vehicle id its trip updates carry ("" when they carry none).
Trips ==
    {[trip_id |-> "T1", route_id |-> "42", direction_id |-> 0,
      vehicle_id |-> ""],
     [trip_id |-> "T2", route_id |-> "42", direction_id |-> 1,
      vehicle_id |-> ""],
     [trip_id |-> "T3", route_id |-> "7", direction_id |-> 1,
      vehicle_id |-> "V3"]}
\* The stop-time updates of one trip update: none; an arrival alone; a
\* departure alone (arrival unset); two stops, each with both times.
StopTimeUpdateLists ==
    {<<>>,
     <<StopTimeUpdate("S1", MaxTime, 0)>>,
     <<StopTimeUpdate("S1", 0, 2)>>,
     <<StopTimeUpdate("S1", 2, 1), StopTimeUpdate("S2", 1, MaxTime)>>}
TripUpdates ==
    {TripUpdate(t.route_id, t.direction_id, t.trip_id, t.vehicle_id, stus) :
        t \in Trips, stus \in StopTimeUpdateLists}
\* Vehicle V1 runs trip T1.
Vehicles == {VehiclePosition("V1", "T1", "42", Position(1, 2), 3)}

\* One service alert is in force.
Alerts == {[header_text |-> "Detour"]}

\* The response bodies of one refresh, already decoded: the trip updates
\* (none, one or two, listed trip by trip in the order of TripIds), the
\* vehicle positions and the alerts.
TripIds == <<"T1", "T2", "T3">>
TripRank(tu) == CHOOSE n \in DOMAIN TripIds : TripIds[n] = tu.trip_id
TripUpdateResponses ==
    {<<>>} \cup {<<a>> : a \in TripUpdates}
    \cup {<<p[1], p[2]>> :
            p \in {q \in TripUpdates \X TripUpdates :
                      TripRank(q[1]) <= TripRank(q[2])}}
VehicleResponses == {<<vp>> : vp \in Vehicles}
AlertResponses == {<<alert>> : alert \in Alerts}
\* api.py:55-59: gather keeps the order of the tasks and MergeFromString
\* appends the entities of each response to the feed.
MergeFeed(tus, vps, alerts) ==
    [n \in DOMAIN tus |-> TripUpdateEntity(tus[n])]
    \o [n \in DOMAIN vps |-> VehicleEntity(vps[n])]
    \o [n \in DOMAIN alerts |-> AlertEntity(alerts[n])]
Feeds == {MergeFeed(tus, vps, alerts) :
            tus \in TripUpdateResponses, vps \in VehicleResponses,
            alerts \in AlertResponses}

(***************************************************************************)
(* Pure parts of _async_update_data.                                       *)
(***************************************************************************)
\* The UTC offset the local zone zone applies at instant t.
utcoffset(zone, t) == IF zone = "DST" /\ t < FallBack THEN FoldLen ELSE 0
\* datetime.fromtimestamp(t) and datetime.now() at instant t: the naive
\* local wall-clock reading.
fromtimestamp(zone, t) == t + utcoffset(zone, t)

\* coordinator.py:131-135: arrival.time unless it is 0, else departure.time.
stop_timestamp(stu) ==
    IF stu.arrival # 0 THEN stu.arrival ELSE stu.departure

\* coordinator.py:119-124
destination(tu) ==
    LET stopCount == Len(tu.stop_time_update)
    IN  IF stopCount > 0
        THEN tu.stop_time_update[stopCount].stop_id
        ELSE "Unknown"

\* coordinator.py:107-111: trip_vehicle_id or vehicle_trips.get(trip_id)
resolve_vehicle_id(tu, trips) ==
    IF tu.vehicle_id # "" THEN Some(tu.vehicle_id)
    ELSE DictGet(trips, tu.trip_id)

\* Python truthiness of a str | None.
TruthyStr(x) == x # None /\ x[1] # ""
\* coordinator.py:139-148: index.get(vehicle_id) if vehicle_id else None
lookup_vehicle(index, vid) ==
    IF TruthyStr(vid) THEN DictGet(index, vid[1]) ELSE None

ArrivalDetails(time, dest, pos, occ) ==
    [arrival_time |-> time, destination |-> dest,
     position |-> pos, occupancy |-> occ]

\* list.sort(key=lambda t: t.arrival_time): stable, ascending.
RECURSIVE InsertByArrival(_, _)
InsertByArrival(sorted, x) ==
    IF sorted = <<>> THEN <<x>>
    ELSE IF sorted[Len(sorted)].arrival_time <= x.arrival_time
         THEN Append(sorted, x)
         ELSE Append(InsertByArrival(SubSeq(sorted, 1, Len(sorted) - 1), x),
                     sorted[Len(sorted)])
RECURSIVE SortByArrival(_)
SortByArrival(q) ==
    IF q = <<>> THEN <<>>
    ELSE InsertByArrival(SortByArrival(SubSeq(q, 1, Len(q) - 1)), q[Len(q)])

\* ensure_keys as it would be if the keys were left to the stop loop.
ensure_keys_skipped(nd, tu) == nd
\* coordinator.py:113-117: the route and direction keys of a trip update.
ensure_keys(nd, tu) ==
    LET withRoute ==
            IF ~Has(nd, tu.route_id) THEN Put(nd, tu.route_id, <<>>) ELSE nd
        dirs == Get(withRoute, tu.route_id)
    IN  IF ~Has(dirs, tu.direction_id)
        THEN Put(withRoute, tu.route_id, Put(dirs, tu.direction_id, <<>>))
        ELSE withRoute

\* coordinator.py:127-155: one stop-time update of trip update tu, evaluated
\* when the clock reads instant clock in time zone zone, against the vehicle
\* index (trips, positions, occupancy).  A failed subscript raises KeyError.
project_stop(nd, tu, stu, clock, zone, trips, positions, occupancy) ==
    IF ~Has(nd, tu.route_id) \/ ~Has(Get(nd, tu.route_id), tu.direction_id)
    THEN [error |-> "KeyError", data |-> nd]
    ELSE
    LET dirs == Get(nd, tu.route_id)
        stops == Get(dirs, tu.direction_id)
        \* 128-129: `not stops.get(stop_id)` holds for a missing stop and
        \* for an empty list alike
        listed == IF DictGet(stops, stu.stop_id) \in {None, Some(<<>>)}
                  THEN Put(stops, stu.stop_id, <<>>)
                  ELSE stops
        stop_datetime == fromtimestamp(zone, stop_timestamp(stu))
        vid == resolve_vehicle_id(tu, trips)
        details == ArrivalDetails(stop_datetime, destination(tu),
                                  lookup_vehicle(positions, vid),
                                  lookup_vehicle(occupancy, vid))
        \* 138: kept only when later than datetime.now()
        filled == IF stop_datetime > fromtimestamp(zone, clock)
                  THEN Put(listed, stu.stop_id,
                           Append(Get(listed, stu.stop_id), details))
                  ELSE listed
    IN  [error |-> "",
         data |-> Put(nd, tu.route_id, Put(dirs, tu.direction_id, filled))]

\* coordinator.py:157-163: every stop's list sorted by arrival_time.
sort_stops(stops) ==
    [n \in DOMAIN stops |->
        [k |-> stops[n].k, v |-> SortByArrival(stops[n].v)]]
sort_directions(dirs) ==
    [n \in DOMAIN dirs |-> [k |-> dirs[n].k, v |-> sort_stops(dirs[n].v)]]
\* sort_snapshot as it would be without the sort of lines 158-163.
sort_snapshot_skipped(nd) == nd
sort_snapshot(nd) ==
    [n \in DOMAIN nd |-> [k |-> nd[n].k, v |-> sort_directions(nd[n].v)]]

(***************************************************************************)
(* GtfsDataCoordinator.get_next_arrivals, coordinator.py:167-191, on the   *)
(* self.data d: a snapshot, or None.  route and direction are str | None   *)
(* and int | None.                                                         *)
(***************************************************************************)
TruthyInt(x) == x # None /\ x[1] # 0
\* 184-187: the loop over filtered.values(); a missing stop raises KeyError.
RECURSIVE collect_arrivals(_, _, _, _)
collect_arrivals(filtered, n, stop, direction) ==
    IF n > Len(filtered) THEN [error |-> "", arrivals |-> <<>>]
    ELSE
    LET routes == filtered[n].v
        rest == collect_arrivals(filtered, n + 1, stop, direction)
    IN  IF TruthyInt(direction) /\ Has(routes, direction[1])
        THEN IF ~Has(Get(routes, direction[1]), stop)
             THEN [error |-> "KeyError", arrivals |-> <<>>]
             ELSE IF rest.error # "" THEN rest
             ELSE [error |-> "",
                   arrivals |-> Get(Get(routes, direction[1]), stop)
                                \o rest.arrivals]
        ELSE rest
\* get_next_arrivals as it would be if a route that is not in the snapshot
\* fell through to the unfiltered snapshot.
get_next_arrivals_unfiltered(d, stop, route, direction) ==
    IF d = None
    THEN [error |-> IF TruthyStr(route) THEN "TypeError"
                    ELSE "AttributeError",
          arrivals |-> <<>>]
    ELSE
    LET filtered == IF TruthyStr(route) /\ Has(d[1], route[1])
                    THEN <<[k |-> route[1], v |-> Get(d[1], route[1])]>>
                    ELSE d[1]
        got == collect_arrivals(filtered, 1, stop, direction)
    IN  IF got.error # "" THEN got
        ELSE [error |-> "", arrivals |-> SortByArrival(got.arrivals)]
get_next_arrivals(d, stop, route, direction) ==
    \* self.data is None: `route_id in self.data` of line 177 raises
    \* TypeError, `filtered.values()` of line 184 AttributeError
    IF d = None
    THEN [error |-> IF TruthyStr(route) THEN "TypeError"
                    ELSE "AttributeError",
          arrivals |-> <<>>]
    ELSE IF TruthyStr(route) /\ ~Has(d[1], route[1])
    THEN [error |-> "", arrivals |-> <<>>]
    ELSE
    LET filtered == IF TruthyStr(route)
                    THEN <<[k |-> route[1], v |-> Get(d[1], route[1])]>>
                    ELSE d[1]
        got == collect_arrivals(filtered, 1, stop, direction)
    IN  IF got.error # "" THEN got
        ELSE [error |-> "", arrivals |-> SortByArrival(got.arrivals)]

(***************************************************************************)
(* GtfsDataCoordinator._update_vehicle_positions, coordinator.py:193-210:  *)
(* the vehicle index of a feed.  No code of the component calls it.        *)
(***************************************************************************)
RECURSIVE index_vehicles(_, _)
index_vehicles(f, n) ==
    IF n = 0
    THEN [positions |-> <<>>, vehicle_trips |-> <<>>, occupancy |-> <<>>]
    ELSE
    LET sofar == index_vehicles(f, n - 1)
        vehicle == VehicleOf(f[n])
    IN  IF vehicle.route_id = "" THEN sofar
        ELSE [positions |->
                Put(sofar.positions, vehicle.vehicle_id, vehicle.position),
              vehicle_trips |->
                Put(sofar.vehicle_trips, vehicle.trip_id, vehicle.vehicle_id),
              occupancy |->
                Put(sofar.occupancy, vehicle.vehicle_id,
                    vehicle.occupancy_status)]
update_vehicle_positions(f) == index_vehicles(f, Len(f))

(***************************************************************************)
(* State.                                                                  *)
(***************************************************************************)
VARIABLES
    pc,                  \* where the refresh coroutine stands
    feed,                \* self.feed
    data,                \* self.data: the published snapshot, or None
    new_data,            \* the local `data` of _async_update_data
    entity_index,        \* the entity the loop of line 102 is at
    stop_index,          \* the stop-time update the loop of line 126 is at
    vehicle_trips,       \* self.vehicle_trips
    vehicle_positions,   \* self.vehicle_positions
    vehicle_occupancy,   \* self.vehicle_occupancy
    last_update_success, \* whether the latest refresh cycle returned
    now,                 \* the instant the system clock reads
    tz,                  \* the local time zone of the process
    result               \* what get_next_arrivals returned, if it was called
                         \* since the refresh coroutine last ran

vars == <<pc, feed, data, new_data, entity_index, stop_index, vehicle_trips,
          vehicle_positions, vehicle_occupancy, last_update_success, now, tz,
          result>>

index_vars == <<vehicle_trips, vehicle_positions, vehicle_occupancy>>

NoResult == [called |-> FALSE, stop_id |-> "", route_id |-> None,
             direction_id |-> None, error |-> "", arrivals |-> <<>>]

\* GtfsDataCoordinator.__init__, coordinator.py:73-88.  self.feed is not set
\* before the first fetch returns; nothing reads it before that.  Line 81
\* assigns {} to self.data and line 83 then runs the initializer of
\* DataUpdateCoordinator, which belongs to Home Assistant and assigns None
\* to self.data; a base class that leaves the attribute alone keeps the {}.
Init ==
    /\ pc = "idle"
    /\ feed = <<>>
    /\ data \in {None, Some(<<>>)}
    /\ new_data = <<>>
    /\ entity_index = 0
    /\ stop_index = 0
    /\ vehicle_trips = <<>>
    /\ vehicle_positions = <<>>
    /\ vehicle_occupancy = <<>>
    /\ last_update_success = TRUE
    /\ now = 1
    /\ tz \in TimeZones
    /\ result = NoResult

\* Time passes.
Tick ==
    /\ now < MaxTime
    /\ now' = now + 1
    /\ UNCHANGED <<pc, feed, data, new_data, entity_index, stop_index,
                   index_vars, last_update_success, tz, result>>

\* The timer fires: _async_update_data runs to the await of line 94, and the
\* coroutine is suspended while the requests of api.py:46-55 are in flight.
\* StartRefresh as it would be if the cycle emptied self.data before it
\* fetched, to rebuild it in place.
StartRefreshClearsSnapshot ==
    /\ pc = "idle"
    /\ pc' = "fetching"
    /\ data' = Some(<<>>)
    /\ result' = NoResult
    /\ UNCHANGED <<feed, new_data, entity_index, stop_index, index_vars,
                   last_update_success, now, tz>>
StartRefresh ==
    /\ pc = "idle"
    /\ pc' = "fetching"
    /\ result' = NoResult
    /\ UNCHANGED <<feed, data, new_data, entity_index, stop_index,
                   index_vars, last_update_success, now, tz>>

\* api.py:55-59 raises: one of the requests failed, or a body did not parse.
\* The exception leaves _async_update_data at line 94, before self.feed is
\* assigned, and the update coordinator records the failed update.
Endpoints == {"trip_updates", "vehicle_positions", "alerts"}
\* FetchFailed as it would be if the failed cycle returned an empty snapshot
\* instead of raising.
FetchFailedPublishesEmpty ==
    /\ pc = "fetching"
    /\ pc' = "idle"
    /\ last_update_success' = FALSE
    /\ data' = Some(<<>>)
    /\ result' = NoResult
    /\ UNCHANGED <<feed, new_data, entity_index, stop_index, index_vars,
                   now, tz>>
FetchFailed ==
    /\ pc = "fetching"
    /\ \E endpoint \in Endpoints, cause \in {"ClientError", "DecodeError"} :
          /\ pc' = "idle"
          /\ last_update_success' = FALSE
    /\ result' = NoResult
    /\ UNCHANGED <<feed, data, new_data, entity_index, stop_index,
                   index_vars, now, tz>>

\* coordinator.py:94-101: the merged feed arrives and the build begins.
FetchOk ==
    /\ pc = "fetching"
    /\ \E f \in Feeds : feed' = f
    /\ new_data' = <<>>
    /\ entity_index' = 1
    /\ stop_index' = 0
    /\ pc' = "project"
    /\ result' = NoResult
    /\ UNCHANGED <<data, index_vars, last_update_success, now, tz>>

\* The build raised: the exception leaves _async_update_data.
abort_refresh ==
    /\ pc' = "idle"
    /\ new_data' = <<>>
    /\ entity_index' = 0
    /\ stop_index' = 0
    /\ last_update_success' = FALSE
    /\ UNCHANGED data

\* coordinator.py:102-124: the next entity of the feed.
ProjectEntity ==
    /\ pc = "project"
    /\ entity_index <= Len(feed)
    /\ stop_index = 0
    /\ LET entity == feed[entity_index]
       IN  IF ~HasTripUpdate(entity)
           THEN /\ entity_index' = entity_index + 1
                /\ UNCHANGED <<new_data, stop_index>>
           ELSE LET tu == entity.trip_update[1]
                IN  /\ new_data' = ensure_keys(new_data, tu)
                    /\ IF Len(tu.stop_time_update) = 0
                       THEN /\ entity_index' = entity_index + 1
                            /\ UNCHANGED stop_index
                       ELSE /\ stop_index' = 1
                            /\ UNCHANGED entity_index
    /\ UNCHANGED <<pc, feed, data, index_vars, last_update_success, now, tz,
                   result>>

\* coordinator.py:126-155: the next stop-time update of the trip update.
ProjectStop ==
    /\ pc = "project"
    /\ entity_index <= Len(feed)
    /\ stop_index >= 1
    /\ LET tu == feed[entity_index].trip_update[1]
           step == project_stop(new_data, tu,
                                tu.stop_time_update[stop_index], now, tz,
                                vehicle_trips, vehicle_positions,
                                vehicle_occupancy)
       IN  IF step.error # ""
           THEN abort_refresh
           ELSE /\ new_data' = step.data
                /\ IF stop_index < Len(tu.stop_time_update)
                   THEN /\ stop_index' = stop_index + 1
                        /\ UNCHANGED entity_index
                   ELSE /\ stop_index' = 0
                        /\ entity_index' = entity_index + 1
                /\ UNCHANGED <<pc, data, last_update_success>>
    /\ UNCHANGED <<feed, index_vars, now, tz, result>>

\* coordinator.py:157-165: the lists are sorted and the snapshot returned;
\* the update coordinator assigns what is returned to self.data.
Publish ==
    /\ pc = "project"
    /\ entity_index > Len(feed)
    /\ data' = Some(sort_snapshot(new_data))
    /\ new_data' = <<>>
    /\ entity_index' = 0
    /\ stop_index' = 0
    /\ pc' = "idle"
    /\ last_update_success' = TRUE
    /\ UNCHANGED <<feed, index_vars, now, tz, result>>

\* A sensor reads its state: sensor.py:165-169 calls get_next_arrivals.  The
\* call is synchronous on the event loop, so it runs only while the refresh
\* coroutine is not running: between cycles, or suspended at the fetch.
RouteArgs == {None} \cup {Some(r) : r \in Routes}
DirectionArgs == {None} \cup {Some(d) : d \in Directions}
Query ==
    /\ pc \in {"idle", "fetching"}
    /\ \E stop \in Stops, route \in RouteArgs, direction \in DirectionArgs :
          LET got == get_next_arrivals(data, stop, route, direction)
          IN  result' = [called |-> TRUE, stop_id |-> stop,
                         route_id |-> route, direction_id |-> direction,
                         error |-> got.error, arrivals |-> got.arrivals]
    /\ UNCHANGED <<pc, feed, data, new_data, entity_index, stop_index,
                   index_vars, last_update_success, now, tz>>

Next ==
    \/ Tick
    \/ StartRefresh
    \/ FetchFailed
    \/ FetchOk
    \/ ProjectEntity
    \/ ProjectStop
    \/ Publish
    \/ Query

Spec == Init /\ [][Next]_vars

(***************************************************************************)
(* Vocabulary of the properties.                                           *)
(***************************************************************************)
\* A snapshot is published; the published snapshot (no route when none is).
HasSnapshot == data # None
snapshot == IF data = None THEN <<>> ELSE data[1]
\* The stop lists of snapshot d, each with the route, direction and stop it
\* is filed under.
StopLists(d) ==
    UNION {UNION {{[route_id |-> d[a].k, direction_id |-> d[a].v[b].k,
                    stop_id |-> d[a].v[b].v[c].k,
                    arrivals |-> d[a].v[b].v[c].v] :
                        c \in DOMAIN d[a].v[b].v} :
                  b \in DOMAIN d[a].v} :
           a \in DOMAIN d}
NonDecreasing(q) ==
    \A m, n \in DOMAIN q : m < n => q[m].arrival_time <= q[n].arrival_time
\* The trip updates of feed f, in feed order.
TripUpdatesOf(f) ==
    {f[n].trip_update[1] : n \in {m \in DOMAIN f : HasTripUpdate(f[m])}}
\* snapshot[route][direction][stop], or the empty list when a key is missing.
ListAt(d, route, direction, stop) ==
    IF /\ Has(d, route)
       /\ Has(Get(d, route), direction)
       /\ Has(Get(Get(d, route), direction), stop)
    THEN Get(Get(Get(d, route), direction), stop)
    ELSE <<>>
\* The build is about to evaluate a stop-time update: this one, of this trip
\* update, and this is the list the evaluation may append to.
AtStop == pc = "project" /\ entity_index <= Len(feed) /\ stop_index >= 1
CurrentTripUpdate == feed[entity_index].trip_update[1]
CurrentStop == CurrentTripUpdate.stop_time_update[stop_index]
CurrentList(d) ==
    ListAt(d, CurrentTripUpdate.route_id, CurrentTripUpdate.direction_id,
           CurrentStop.stop_id)
\* A refresh cycle ends in this step, and ends failed.
CycleFails == pc # "idle" /\ pc' = "idle" /\ ~last_update_success'
\* A refresh cycle has returned and none has failed since.
LastCycleReturned == pc = "idle" /\ last_update_success /\ feed # <<>>
QueryArgs == Stops \X RouteArgs \X DirectionArgs

(***************************************************************************)
(* C1.  A refresh cycle that fails (a request fails, a body does not       *)
(* decode) leaves the published snapshot as it was, and every query        *)
(* returns after it what it returned before it.  Each failed cycle         *)
(* preserving the snapshot, so does any run of consecutive failed cycles.  *)
(***************************************************************************)
C1_FailedCycleKeepsSnapshot ==
    [][CycleFails =>
        /\ data' = data
        /\ \A q \in QueryArgs :
              get_next_arrivals(data', q[1], q[2], q[3])
              = get_next_arrivals(data, q[1], q[2], q[3])]_vars
\* A cycle has failed after a snapshot with arrivals was published, and a
\* query made since the failure has returned arrivals of that snapshot.
C1_Witness ==
    /\ pc = "idle"
    /\ ~last_update_success
    /\ snapshot # <<>>
    /\ result.called
    /\ result.arrivals # <<>>

(***************************************************************************)
(* C2.  A stop-time update whose computed timestamp (the arrival time if   *)
(* non-zero, else the departure time) is not later than the current time   *)
(* when it is evaluated produces no ArrivalRecord.                         *)
(***************************************************************************)
C2_PastStopTimeYieldsNoRecord ==
    [][(AtStop /\ stop_timestamp(CurrentStop) <= now) =>
        Len(CurrentList(new_data')) = Len(CurrentList(new_data))]_vars

(***************************************************************************)
(* C3.  When route r of the snapshot contains direction d and that bucket  *)
(* contains stop s, get_next_arrivals(s, r, d) returns exactly the records *)
(* of snapshot[r][d][s], in ascending arrival_time order, for every        *)
(* direction d, 0 included.                                                *)
(***************************************************************************)
C3_QueryReturnsBucketInOrder ==
    (/\ result.called
     /\ result.route_id # None
     /\ result.direction_id # None
     /\ Has(snapshot, result.route_id[1])
     /\ Has(Get(snapshot, result.route_id[1]), result.direction_id[1])
     /\ Has(Get(Get(snapshot, result.route_id[1]), result.direction_id[1]),
            result.stop_id))
    => /\ result.error = ""
       /\ result.arrivals = ListAt(snapshot, result.route_id[1],
                                   result.direction_id[1], result.stop_id)
       /\ NonDecreasing(result.arrivals)

(***************************************************************************)
(* C4.  Every refresh cycle that returns has rebuilt the vehicle index     *)
(* (positions, occupancy, vehicle by trip) from the feed it merged.        *)
(***************************************************************************)
C4_IndexRebuiltEachCycle ==
    LastCycleReturned =>
        LET index == update_vehicle_positions(feed)
        IN  /\ vehicle_positions = index.positions
            /\ vehicle_trips = index.vehicle_trips
            /\ vehicle_occupancy = index.occupancy

(***************************************************************************)
(* C5.  A stop_id missing from a contributing (route, direction) bucket is *)
(* no error: get_next_arrivals, called on a snapshot, skips the bucket and *)
(* does not fail.                                                          *)
(***************************************************************************)
C5_MissingStopIsNoError ==
    (result.called /\ HasSnapshot) => result.error = ""

(***************************************************************************)
(* C6.  In every snapshot a refresh cycle publishes, every stop's arrival  *)
(* list is non-decreasing in arrival_time, whatever the order of the trip  *)
(* updates and of their stop-time updates in the feed.                     *)
(***************************************************************************)
C6_StopListsSorted ==
    \A l \in StopLists(snapshot) : NonDecreasing(l.arrivals)
\* A published list of two arrivals at different times whose trip updates
\* came in the feed latest first.
C6_Witness ==
    /\ LastCycleReturned
    /\ Len(feed) >= 2
    /\ HasTripUpdate(feed[1]) /\ HasTripUpdate(feed[2])
    /\ LET a == feed[1].trip_update[1]
           b == feed[2].trip_update[1]
       IN  /\ Len(a.stop_time_update) = 1 /\ Len(b.stop_time_update) = 1
           /\ a.route_id = b.route_id /\ a.direction_id = b.direction_id
           /\ a.stop_time_update[1].stop_id = b.stop_time_update[1].stop_id
           /\ fromtimestamp(tz, stop_timestamp(a.stop_time_update[1]))
              > fromtimestamp(tz, stop_timestamp(b.stop_time_update[1]))
           /\ LET l == ListAt(snapshot, a.route_id, a.direction_id,
                              a.stop_time_update[1].stop_id)
              IN  Len(l) = 2 /\ l[1].arrival_time < l[2].arrival_time

(***************************************************************************)
(* C7.  Every ArrivalRecord built from a trip update carries the position  *)
(* and occupancy of the trip update's vehicle in the vehicle index of the  *)
(* cycle's feed: the vehicle the trip update names when it names one, else *)
(* the vehicle vehicle_by_trip links to its trip_id; and carries none when *)
(* neither resolves.                                                       *)
(***************************************************************************)
C7_RecordCarriesLinkedVehicle ==
    [][(AtStop /\ Len(CurrentList(new_data')) > Len(CurrentList(new_data)))
       => LET built == CurrentList(new_data')
              record == built[Len(built)]
              index == update_vehicle_positions(feed)
              vid == IF CurrentTripUpdate.vehicle_id # ""
                     THEN Some(CurrentTripUpdate.vehicle_id)
                     ELSE DictGet(index.vehicle_trips,
                                  CurrentTripUpdate.trip_id)
          IN  /\ record.position =
                    IF vid = None THEN None
                    ELSE DictGet(index.positions, vid[1])
              /\ record.occupancy =
                    IF vid = None THEN None
                    ELSE DictGet(index.occupancy, vid[1])]_vars

(***************************************************************************)
(* C8.  A trip update without stop-time updates does not make the refresh  *)
(* cycle fail and contributes no ArrivalRecord, and its route_id and       *)
(* direction_id are keys of the snapshot all the same, over an empty stop  *)
(* mapping when no other trip update fills it.                             *)
(***************************************************************************)
AtEmptyTripUpdate ==
    /\ pc = "project"
    /\ entity_index <= Len(feed)
    /\ stop_index = 0
    /\ HasTripUpdate(feed[entity_index])
    /\ CurrentTripUpdate.stop_time_update = <<>>
\* The refresh coroutine runs in this step.
build_vars == <<pc, new_data, entity_index, stop_index>>
BuildStep == build_vars' # build_vars
HasBucket(d, tu) ==
    Has(d, tu.route_id) /\ Has(Get(d, tu.route_id), tu.direction_id)
C8_EmptyTripUpdateKeepsKeys ==
    /\ [][(AtEmptyTripUpdate /\ BuildStep) =>
            /\ pc' = "project"
            /\ entity_index' = entity_index + 1
            /\ HasBucket(new_data', CurrentTripUpdate)
            /\ \A s \in Stops :
                  ListAt(new_data', CurrentTripUpdate.route_id,
                         CurrentTripUpdate.direction_id, s)
                  = ListAt(new_data, CurrentTripUpdate.route_id,
                           CurrentTripUpdate.direction_id, s)
            /\ {l \in StopLists(new_data') : l.arrivals # <<>>}
               = {l \in StopLists(new_data) : l.arrivals # <<>>}]_vars
    /\ [][(pc = "project" /\ pc' = "idle") => last_update_success']_vars
    /\ [](LastCycleReturned =>
            \A tu \in TripUpdatesOf(feed) :
                tu.stop_time_update = <<>> =>
                    /\ HasBucket(snapshot, tu)
                    /\ (\A other \in TripUpdatesOf(feed) :
                            (/\ other.route_id = tu.route_id
                             /\ other.direction_id = tu.direction_id)
                            => other.stop_time_update = <<>>)
                       => Get(Get(snapshot, tu.route_id),
                              tu.direction_id) = <<>>)
\* A cycle has returned whose feed held a trip update without stop-time
\* updates, and the snapshot holds its route and direction over no stops.
C8_Witness ==
    /\ LastCycleReturned
    /\ \E tu \in TripUpdatesOf(feed) :
          /\ tu.stop_time_update = <<>>
          /\ HasBucket(snapshot, tu)
          /\ Get(Get(snapshot, tu.route_id), tu.direction_id) = <<>>

(***************************************************************************)
(* C9.  get_next_arrivals called with a route_id that is not a key of the  *)
(* published snapshot returns an empty sequence and raises no error,       *)
(* whatever the stop_id and the direction_id.                              *)
(***************************************************************************)
C9_AbsentRouteYieldsEmpty ==
    (/\ result.called
     /\ HasSnapshot
     /\ TruthyStr(result.route_id)
     /\ ~Has(snapshot, result.route_id[1]))
    => (result.error = "" /\ result.arrivals = <<>>)
\* Such a call has returned while another route of the snapshot holds
\* arrivals for the stop and the direction asked for.
C9_Witness ==
    /\ result.called
    /\ TruthyStr(result.route_id)
    /\ result.direction_id # None
    /\ HasSnapshot
    /\ ~Has(snapshot, result.route_id[1])
    /\ \E r \in Routes :
          ListAt(snapshot, r, result.direction_id[1], result.stop_id) # <<>>

(***************************************************************************)
(* C10.  The published snapshot changes only when a refresh cycle returns, *)
(* and then to the complete, sorted snapshot that cycle built from all the *)
(* entities of its feed; a query, also one made while the cycle is         *)
(* suspended at its fetch, reads the published snapshot and leaves it as   *)
(* it is.                                                                  *)
(***************************************************************************)
C10_SnapshotReplacedWhole ==
    [][/\ data' # data =>
            /\ pc = "project"
            /\ entity_index > Len(feed)
            /\ pc' = "idle"
            /\ data' = Some(sort_snapshot(new_data))
            /\ \A l \in StopLists(snapshot') : NonDecreasing(l.arrivals)
       /\ (result'.called /\ result' # result) =>
            /\ pc \in {"idle", "fetching"}
            /\ data' = data
            /\ LET got == get_next_arrivals(data, result'.stop_id,
                                            result'.route_id,
                                            result'.direction_id)
               IN  result'.error = got.error
                   /\ result'.arrivals = got.arrivals]_vars
\* With a second cycle suspended at its fetch, a query has returned arrivals
\* of the snapshot the cycle before it published.
C10_Witness ==
    /\ pc = "fetching"
    /\ snapshot # <<>>
    /\ result.called
    /\ result.arrivals # <<>>

(***************************************************************************)
(* C11.  After a successful refresh cycle, snapshot[r][d][s] holds exactly *)
(* one record per stop-time update at stop s, over all trip updates of the *)
(* feed with route r and direction d, whose computed timestamp is in the   *)
(* future, with arrival_time the date and time of that timestamp: nothing  *)
(* is lost, duplicated, overwritten or filed under another key.  Stated    *)
(* step by step over the cycle: the build starts from no record; each      *)
(* stop-time update appends one record to its own list exactly when its    *)
(* timestamp is later than the clock, and touches no other list; an entity *)
(* header touches no list; the final sort permutes each list.              *)
(***************************************************************************)
BucketKeys == Routes \X Directions \X Stops
Occurrences(q, x) == Cardinality({n \in DOMAIN q : q[n] = x})
SameRecords(p, q) ==
    /\ Len(p) = Len(q)
    /\ \A n \in DOMAIN p : Occurrences(p, p[n]) = Occurrences(q, p[n])
AtEntity == pc = "project" /\ entity_index <= Len(feed) /\ stop_index = 0
CycleReturns == pc = "project" /\ pc' = "idle" /\ last_update_success'
AppendsOneAt(key) ==
    LET old == ListAt(new_data, key[1], key[2], key[3])
        new == ListAt(new_data', key[1], key[2], key[3])
    IN  IF /\ key = <<CurrentTripUpdate.route_id,
                      CurrentTripUpdate.direction_id, CurrentStop.stop_id>>
           /\ stop_timestamp(CurrentStop) > now
        THEN /\ Len(new) = Len(old) + 1
             /\ SubSeq(new, 1, Len(old)) = old
             /\ new[Len(new)].arrival_time =
                    fromtimestamp(tz, stop_timestamp(CurrentStop))
        ELSE new = old
C11_RecordsAccumulateExactly ==
    /\ [][(pc = "fetching" /\ pc' = "project") => new_data' = <<>>]_vars
    /\ [][(AtEntity /\ BuildStep) =>
            \A key \in BucketKeys :
                ListAt(new_data', key[1], key[2], key[3]) =
                ListAt(new_data, key[1], key[2], key[3])]_vars
    /\ [][(AtStop /\ BuildStep) =>
            \A key \in BucketKeys : AppendsOneAt(key)]_vars
    /\ [][CycleReturns =>
            \A key \in BucketKeys :
                SameRecords(ListAt(snapshot', key[1], key[2], key[3]),
                            ListAt(new_data, key[1], key[2], key[3]))]_vars

====
